---- MODULE Spec2Model ----
(***************************************************************************)
(* Topology optimizer of KGP-struct (topology_module/backend.py and        *)
(* topology_module/ui.py): the ground structure, its mirror pairing, one   *)
(* evolutionary iteration (solve, energy, symmetrize, rank, soft kill) and *)
(* the Tk timer loop that drives it.                                       *)
(*                                                                         *)
(* Numbers.  The geometry of the code is in Python floats, and so it is    *)
(* here: mid_x, mid_y, length and strain_energy are IEEE 754 doubles, and  *)
(* the operations on them (+, -, *, /, math.hypot, round(., 3), <, <=)     *)
(* round as the doubles do.  A span or height of the form is a decimal of  *)
(* three places, given as its number of mm; a node coordinate is what      *)
(* round(., 3) returned, again a decimal of three places, and is kept as   *)
(* its number of mm k: the float is Mm(k).  Forces are integers.  A        *)
(* stiffness value is a decimal float [m |-> mantissa, e |-> exponent],    *)
(* so that the soft kill's "* 1e-6" is exact.                              *)
(***************************************************************************)
EXTENDS Integers, Sequences, FiniteSets

(* ---------------- program constants ---------------- *)
x_divs == 8
y_divs == 3
SafetyFloor == 15
ConvergenceFloor == 25
(* removal_ratio = 0.02 = RatioNum / RatioDen *)
RatioNum == 2
RatioDen == 100
(* Python's None for mirror_id; element ids start at 1 *)
None == 0

(* ---------------- bounds of the model ---------------- *)
(* run_iteration is tabulated for at most this many iterations of a run *)
MaxIterations == 100
(* RUN is pressed only while fewer than this many run_loop callbacks are *)
(* scheduled                                                             *)
MaxPending == 2
(* the load cases 1..NumLoadCases, each giving one solver force field *)
NumLoadCases == 2

(* ---------------- inputs ---------------- *)
(* the entry fields of the form: <<span, height>> in mm, the load, the    *)
(* support selector, E in GPa and the I-section {B, D, tw, tf} in mm      *)
Geometries == << <<16000, 6000>>, <<8000, 6000>>, <<12000, 3000>>, <<8, 6>> >>
LoadCases == 1..NumLoadCases
SupportType == "Pinned-Roller"
E_GPa_Input == 200
SectionInput == [B |-> 40, D |-> 80, tw |-> 4, tf |-> 6]
(* a section whose flange thickness exceeds half the depth *)
DegenerateSection == [B |-> 20, D |-> 40, tw |-> 4, tf |-> 25]
Sections == << SectionInput, DegenerateSection >>
(* spans and heights in mm for initialize_structure called on its own:    *)
(* down to a few mm, where round(., 3) puts grid nodes on the same point; *)
(* spans of 4, 20 and 100 mm, where i * dx falls half way between two     *)
(* decimals; spans of 16, 400 and 16000 mm with heights of 1 and 300 mm,  *)
(* where a midpoint lies at 0.1 from a reflected one                      *)
MeshSpans == << 4, 16, 20, 100, 400, 2400, 8000, 16000 >>
MeshHeights == << 1, 2, 6, 300, 3000, 5000 >>

(* ---------------- arithmetic helpers ---------------- *)
Abs(x) == IF x < 0 THEN -x ELSE x

Max2(a, b) == IF a > b THEN a ELSE b

SetMin(S) == CHOOSE x \in S : \A y \in S : x <= y

(* a function on 1..n as a list, element by element *)
AsList(f) == SubSeq(f, 1, Len(f))

(* ---------------- natural numbers of any size ---------------- *)
(* a natural number as its digits in base 2^13, least significant first *)
Base == 8192
LimbBits == 13

Limb(x, i) == IF i >= 1 /\ i <= Len(x) THEN x[i] ELSE 0

(* the digits of sum_i v[i] * Base^(i-1), for v[i] < 2^31 - 2^18 *)
RECURSIVE Carry(_, _, _, _)
Carry(v, i, c, acc) ==
    IF Len(acc) < 0 THEN acc
    ELSE IF i > Len(v)
    THEN IF c = 0 THEN acc ELSE Carry(v, i, c \div Base, Append(acc, c % Base))
    ELSE Carry(v, i + 1, (v[i] + c) \div Base, Append(acc, (v[i] + c) % Base))

RECURSIVE Trim(_)
Trim(x) == IF Len(x) > 0 /\ x[Len(x)] = 0 THEN Trim(SubSeq(x, 1, Len(x) - 1)) ELSE x

BigOf(n) == Trim(<< n % Base, (n \div Base) % Base, n \div (Base * Base) >>)

BigAdd(x, y) ==
    Carry([ i \in 1..Max2(Len(x), Len(y)) |-> Limb(x, i) + Limb(y, i) ], 1, 0, << >>)

RECURSIVE Convolve(_, _, _, _)
Convolve(x, y, k, i) ==
    IF i > Len(x) \/ i > k THEN 0
    ELSE x[i] * Limb(y, k + 1 - i) + Convolve(x, y, k, i + 1)

BigMul(x, y) ==
    IF Len(x) = 0 \/ Len(y) = 0 THEN << >>
    ELSE Trim(Carry([ k \in 1..(Len(x) + Len(y) - 1) |-> Convolve(x, y, k, 1) ], 1, 0, << >>))

BigSquare(x) == BigMul(x, x)

(* -1, 0, 1 as x <, =, > y; both without leading zeros *)
RECURSIVE BigCmpAt(_, _, _)
BigCmpAt(x, y, i) ==
    IF i = 0 THEN 0
    ELSE IF x[i] < y[i] THEN -1
    ELSE IF x[i] > y[i] THEN 1
    ELSE BigCmpAt(x, y, i - 1)

BigCmp(x, y) ==
    IF Len(x) < Len(y) THEN -1
    ELSE IF Len(x) > Len(y) THEN 1
    ELSE BigCmpAt(x, y, Len(x))

(* x - y for x >= y; d is the digit of the difference at i, less Base *)
(* if it borrows                                                      *)
RECURSIVE Borrow(_, _, _, _, _)
Borrow(x, y, i, d, acc) ==
    IF Len(acc) < 0 \/ i > Len(x) THEN acc
    ELSE IF d < 0
    THEN Borrow(x, y, i + 1, Limb(x, i + 1) - Limb(y, i + 1) - 1, Append(acc, d + Base))
    ELSE Borrow(x, y, i + 1, Limb(x, i + 1) - Limb(y, i + 1), Append(acc, d))

BigSub(x, y) == Trim(Borrow(x, y, 1, Limb(x, 1) - Limb(y, 1), << >>))

(* x * 2^s *)
BigShl(x, s) ==
    IF Len(x) = 0 THEN << >>
    ELSE [ i \in 1..(s \div LimbBits) |-> 0 ]
         \o Carry([ i \in 1..Len(x) |-> x[i] * 2^(s % LimbBits) ], 1, 0, << >>)

(* floor(x / 2^(LimbBits * q + r)), r < LimbBits *)
BigShrBy(x, q, r) ==
    IF q >= Len(x) THEN << >>
    ELSE Trim([ i \in 1..(Len(x) - q) |->
                  (x[i + q] \div 2^r) + (Limb(x, i + q + 1) % 2^r) * 2^(LimbBits - r) ])

(* floor(x / 2^s) *)
BigShr(x, s) == BigShrBy(x, s \div LimbBits, s % LimbBits)

(* x mod 2^s = 0 *)
BigLowZero(x, s) ==
    /\ \A i \in 1..(s \div LimbBits) : Limb(x, i) = 0
    /\ Limb(x, (s \div LimbBits) + 1) % 2^(s % LimbBits) = 0

(* bit s of x (bit 0 is the lowest) *)
BigBit(x, s) == (Limb(x, (s \div LimbBits) + 1) \div 2^(s % LimbBits)) % 2

(* the number of bits of n, 0 <= n < 2^31 *)
BitLen(n) == Cardinality({ b \in 0..30 : 2^b <= n })

(* the number of bits of x (without leading zeros) *)
BigBitLen(x) == IF Len(x) = 0 THEN 0 ELSE LimbBits * (Len(x) - 1) + BitLen(x[Len(x)])

(* << floor(x / d), x mod d >> for 0 < d < 2^17, from digit i down; cur *)
(* is the remainder so far with digit i appended                       *)
RECURSIVE BigDivAt(_, _, _, _, _)
BigDivAt(x, d, i, cur, acc) ==
    IF Len(acc) < 0 \/ i = 0 THEN << Trim(acc), cur >>
    ELSE BigDivAt(x, d, i - 1, IF i = 1 THEN cur % d ELSE (cur % d) * Base + x[i - 1],
                  << cur \div d >> \o acc)

BigDivSmall(x, d) == BigDivAt(x, d, Len(x), Limb(x, Len(x)), << >>)

(* x * k for 0 <= k < 2^17 *)
BigMulSmall(x, k) ==
    IF k = 0 THEN << >> ELSE Carry([ i \in 1..Len(x) |-> x[i] * k ], 1, 0, << >>)

(* a natural number below 2^31 as an int *)
BigToInt(x) == Limb(x, 1) + Base * Limb(x, 2) + Base * Base * Limb(x, 3)

(* the next digit of a square root: the largest d + t, t < 2^(b+1), with *)
(* (d0 + d + t) * (d + t) <= rem, where d0 is 2 * Base * (the root so    *)
(* far)                                                                  *)
RECURSIVE SqrtDigit(_, _, _, _)
SqrtDigit(d0, rem, d, b) ==
    IF b < 0 THEN d
    ELSE IF BigCmp(BigMulSmall([ d0 EXCEPT ![1] = d + 2^b ], d + 2^b), rem) <= 0
    THEN SqrtDigit(d0, rem, d + 2^b, b - 1)
    ELSE SqrtDigit(d0, rem, d, b - 1)

(* << floor(sqrt(s)), s - floor(sqrt(s))^2 >> for s of 2 * i digits, two *)
(* digits of s for every digit of the root, from the highest down: rem   *)
(* has the next two digits of s appended, d0 is 2 * Base * root and d    *)
(* the next digit                                                        *)
RECURSIVE BigSqrtAt(_, _, _, _)
RECURSIVE SqrtNext(_, _, _, _, _)
RECURSIVE SqrtPut(_, _, _, _, _, _)
BigSqrtAt(s, i, root, rem) ==
    IF Len(root) < 0 \/ i = 0 THEN << root, rem >>
    ELSE SqrtNext(s, i, root, Trim(<< s[2 * i - 1], s[2 * i] >> \o rem),
                  << 0 >> \o BigAdd(root, root))

SqrtNext(s, i, root, rem, d0) ==
    SqrtPut(s, i, root, rem, d0, SqrtDigit(d0, rem, 0, LimbBits - 1))

SqrtPut(s, i, root, rem, d0, d) ==
    BigSqrtAt(s, i - 1, << d >> \o root, BigSub(rem, BigMulSmall([ d0 EXCEPT ![1] = d ], d)))

BigSqrtOf(s, n) == BigSqrtAt([ i \in 1..(2 * n) |-> Limb(s, i) ], n, << >>, << >>)

BigSqrt(s) == BigSqrtOf(s, (Len(s) + 1) \div 2)

(* ---------------- IEEE 754 binary64, not negative ---------------- *)
(* a double > 0 is << E, hi, lo >> with 2^26 <= hi < 2^27 and lo < 2^26: *)
(* the value (hi * 2^26 + lo) * 2^E, a mantissa of 53 bits; the tuples   *)
(* compare as the doubles do                                             *)
Precision == 53
LoRange == 67108864
HiRange == 134217728
Zero == << -2000, 0, 0 >>

IsZero(x) == x[1] = -2000

Less(x, y) ==
    \/ x[1] < y[1]
    \/ /\ x[1] = y[1]
       /\ \/ x[2] < y[2]
          \/ (x[2] = y[2] /\ x[3] < y[3])

LessEq(x, y) == ~Less(y, x)

(* the mantissa as a natural number *)
Mantissa(x) == << x[3] % Base, x[3] \div Base, x[2] % Base, (x[2] \div Base) % Base, 1 >>

(* the double of exponent e and mantissa m, 2^52 <= m <= 2^53 *)
Pack(e, m) ==
    IF m[5] = 2 THEN << e + 1, LoRange, 0 >>
    ELSE << e, LoRange + m[4] * Base + m[3], m[2] * Base + m[1] >>

(* (q + f) * 2^e for q of 53 bits and a fraction f: half says f >= 1/2, *)
(* exact that f is 0 or 1/2                                             *)
RoundNearest(e, q, half, exact) ==
    Pack(e, IF half /\ (~exact \/ q[1] % 2 = 1) THEN BigAdd(q, << 1 >>) ELSE q)

(* n * 2^e for n of bl bits, rounded to the nearest double, ties to even *)
RoundBits(n, e, bl) ==
    IF bl = 0 THEN Zero
    ELSE IF bl <= Precision
    THEN Pack(e - (Precision - bl), BigShl(n, Precision - bl))
    ELSE RoundNearest(e + (bl - Precision), BigShr(n, bl - Precision),
                      BigBit(n, bl - Precision - 1) = 1,
                      BigLowZero(n, bl - Precision - 1))

(* n * 2^e rounded to the nearest double, ties to even *)
Round(n, e) == RoundBits(n, e, BigBitLen(n))

(* the double nearest to (n + f) * 2^e, where n has 55 bits at least and *)
(* 0 < f < 1 if sticky, f = 0 otherwise                                  *)
RoundSticky(n, e, sticky) ==
    IF sticky THEN Round(BigAdd(BigShl(n, 1), << 1 >>), e - 1) ELSE Round(n, e)

(* the double nearest to (the quotient of qr = << quotient, remainder >>) *)
(* times 2^e                                                              *)
RoundQuotient(qr, e) == RoundSticky(qr[1], e, qr[2] # 0)

(* the double nearest to num / den, 0 <= num < 2^31, 0 < den < 2^17 *)
Ratio(num, den) == RoundQuotient(BigDivSmall(BigShl(BigOf(num), 78), den), -78)

(* float("k / 1000") for a decimal of three places, k in mm *)
Mm(k) == Ratio(k, 1000)

(* float(n) *)
Float(n) == Round(BigOf(n), 0)

(* x * 2^k *)
Scale(x, k) == IF IsZero(x) THEN x ELSE << x[1] + k, x[2], x[3] >>

Half(x) == Scale(x, -1)

(* the next double above << e, hi, lo >> *)
Succ(e, hi, lo) ==
    IF lo + 1 < LoRange THEN << e, hi, lo + 1 >>
    ELSE IF hi + 1 < HiRange THEN << e, hi + 1, 0 >>
    ELSE << e + 1, LoRange, 0 >>

(* -1, 0, 1 as rem is below, at or above half *)
Against(rem, half) == IF rem > half THEN 1 ELSE IF rem < half THEN -1 ELSE 0

(* y's mantissa divided by 2^d: the quotient [hi, lo], c = -1, 0, 1 as the *)
(* fraction dropped is below, at or above one half, nz: it is not zero     *)
Shifted(y, d) ==
    IF d = 0 THEN [ hi |-> y[2], lo |-> y[3], c |-> -1, nz |-> FALSE ]
    ELSE IF d <= 26
    THEN [ hi |-> y[2] \div 2^d,
           lo |-> (y[3] \div 2^d) + (y[2] % 2^d) * 2^(26 - d),
           c |-> Against(y[3] % 2^d, 2^(d - 1)),
           nz |-> y[3] % 2^d # 0 ]
    ELSE IF d <= 53
    THEN [ hi |-> 0,
           lo |-> y[2] \div 2^(d - 26),
           c |-> IF y[2] % 2^(d - 26) = 2^(d - 27) /\ y[3] > 0 THEN 1
                 ELSE Against(y[2] % 2^(d - 26), 2^(d - 27)),
           nz |-> y[2] % 2^(d - 26) # 0 \/ y[3] # 0 ]
    ELSE [ hi |-> 0, lo |-> 0, c |-> -1, nz |-> TRUE ]

(* the mantissa h * 2^26 + l of 54 bits halved, at exponent e: odd says *)
(* that a one was dropped, nz that more was dropped before              *)
Halved(e, h, l, odd, nz) ==
    IF odd /\ (nz \/ ((l \div 2) + (h % 2) * (LoRange \div 2)) % 2 = 1)
    THEN Succ(e, h \div 2, (l \div 2) + (h % 2) * (LoRange \div 2))
    ELSE << e, h \div 2, (l \div 2) + (h % 2) * (LoRange \div 2) >>

(* the sum h * 2^26 + l of the mantissa of x and q, at the exponent e of x *)
AddRounded(e, h, l, q) ==
    IF h < HiRange
    THEN IF q.c = 1 \/ (q.c = 0 /\ l % 2 = 1) THEN Succ(e, h, l) ELSE << e, h, l >>
    ELSE Halved(e + 1, h, l, l % 2 = 1, q.nz)

(* x + y for 0 < y <= x, q is y shifted to the exponent of x *)
AddShifted(x, q) ==
    AddRounded(x[1], x[2] + q.hi + ((x[3] + q.lo) \div LoRange), (x[3] + q.lo) % LoRange, q)

(* x + y for 0 < y <= x *)
AddOrdered(x, y) == AddShifted(x, Shifted(y, x[1] - y[1]))

(* x + y *)
Add(x, y) ==
    IF IsZero(x) THEN y
    ELSE IF IsZero(y) THEN x
    ELSE IF Less(x, y) THEN AddOrdered(y, x)
    ELSE AddOrdered(x, y)

(* the double of mantissa hi * 2^26 + lo * 2^s, hi of 27 - s bits *)
ShiftedUp(e, hi, lo, s) ==
    << e - s, hi * 2^s + (lo \div 2^(26 - s)), (lo % 2^(26 - s)) * 2^s >>

(* the double of mantissa hi * 2^26 + lo > 0 below 2^53 and exponent e,  *)
(* the mantissa shifted up to 53 bits                                     *)
Normalize(e, hi, lo) ==
    IF hi > 0 THEN ShiftedUp(e, hi, lo, 27 - BitLen(hi))
    ELSE << e - (53 - BitLen(lo)), lo * 2^(27 - BitLen(lo)), 0 >>

(* x - y for 0 < y < x, of the same exponent: exact *)
SubAligned(x, y) ==
    IF x[3] < y[3] THEN Normalize(x[1], x[2] - y[2] - 1, x[3] - y[3] + LoRange)
    ELSE Normalize(x[1], x[2] - y[2], x[3] - y[3])

(* the difference i + g of the mantissas in units of half the last place *)
(* of x, i = h * 2^26 + l and 0 <= g < 1 as q tells, cut to 53 bits; e   *)
(* is the exponent of x                                                  *)
SubRounded(e, h, l, q) ==
    IF h >= HiRange THEN Halved(e, h, l, l % 2 = 1, q.nz)
    ELSE IF h >= LoRange
    THEN IF (q.nz /\ q.c = -1) \/ (q.c = 0 /\ l % 2 = 1) THEN Succ(e - 1, h, l)
         ELSE << e - 1, h, l >>
    ELSE Normalize(e - 1, h, l)

SubBorrowed(e, h, l, q) ==
    IF l < 0 THEN SubRounded(e, h - 1, l + LoRange, q) ELSE SubRounded(e, h, l, q)

(* x - y for 0 < y < x, q is y shifted to half the last place of x *)
SubHalves(x, q) ==
    SubBorrowed(x[1], (2 * x[2]) + (x[3] \div (LoRange \div 2)) - q.hi,
                ((2 * x[3]) % LoRange) - q.lo - (IF q.nz THEN 1 ELSE 0), q)

(* x - y for 0 < y < x, x of the greater exponent *)
SubShifted(x, y) == SubHalves(x, Shifted(y, x[1] - y[1] - 1))

(* |x - y| *)
AbsDiff(x, y) ==
    IF x = y THEN Zero
    ELSE IF IsZero(x) THEN y
    ELSE IF IsZero(y) THEN x
    ELSE IF Less(x, y)
    THEN IF x[1] = y[1] THEN SubAligned(y, x) ELSE SubShifted(y, x)
    ELSE IF x[1] = y[1] THEN SubAligned(x, y) ELSE SubShifted(x, y)

(* x / k for an int 0 < k < 2^17 *)
Div(x, k) ==
    IF IsZero(x) THEN Zero
    ELSE RoundQuotient(BigDivSmall(BigShl(Mantissa(x), 60), k), x[1] - 60)

(* the integer nearest to n * 2^e, the halves to even *)
NearestInt(n, e) ==
    IF e >= 0 THEN BigToInt(BigShl(n, e))
    ELSE BigToInt(BigShr(n, 0 - e))
         + (IF BigBit(n, 0 - e - 1) = 1 /\ (~BigLowZero(n, 0 - e - 1) \/ BigBit(n, 0 - e) = 1)
            THEN 1 ELSE 0)

(* round(x, 3) in thousandths: the integer nearest to 1000 * x, the     *)
(* halves to even (x taken exactly; the result is float of that decimal) *)
Round3(x) == IF IsZero(x) THEN 0 ELSE NearestInt(BigMulSmall(Mantissa(x), 1000), x[1])

(* x * y *)
Mul(x, y) ==
    IF IsZero(x) \/ IsZero(y) THEN Zero
    ELSE Round(BigMul(Mantissa(x), Mantissa(y)), x[1] + y[1])

(* k * x for k = 2^hb + rest, 0 <= rest < 2^hb < 2^16: a power of two    *)
(* scales x; the sum of two powers of two is the one rounding of the     *)
(* sum of two scaled x                                                   *)
MulBits(x, k, hb, rest) ==
    IF rest = 0 THEN Scale(x, hb)
    ELSE IF rest = 2^(BitLen(rest) - 1) THEN Add(Scale(x, hb), Scale(x, BitLen(rest) - 1))
    ELSE Round(BigMulSmall(Mantissa(x), k), x[1])

(* k * x, the int k >= 0 converted to a double first *)
MulInt(x, k) ==
    IF k = 0 \/ IsZero(x) THEN Zero
    ELSE IF k < 65536 THEN MulBits(x, k, BitLen(k) - 1, k - 2^(BitLen(k) - 1))
    ELSE Mul(Float(k), x)

(* the double nearest to (r + f) * 2^e for r = << root, remainder >> of *)
(* a square root, 0 <= f < 1: f > 0 if there is a remainder or the      *)
(* square was cut                                                       *)
RootRounded(r, e, cut) == RoundSticky(r[1], e, cut \/ Len(r[2]) > 0)

(* the double nearest to sqrt(s) * 2^e, for s of bl bits: s is cut or   *)
(* padded to 129 or 130 bits, by an even number of bits                 *)
SqrtBits(s, e, bl) ==
    IF bl > 130
    THEN RootRounded(BigSqrt(BigShr(s, 2 * ((bl - 129) \div 2))), e + ((bl - 129) \div 2),
                     ~BigLowZero(s, 2 * ((bl - 129) \div 2)))
    ELSE RootRounded(BigSqrt(BigShl(s, 2 * ((130 - bl) \div 2))), e - ((130 - bl) \div 2),
                     FALSE)

(* the double nearest to sqrt(a^2 + b^2) * 2^e *)
RootOfSquares(s, e) == SqrtBits(s, e, BigBitLen(s))

(* math.hypot(x, y) for x, y > 0 whose smaller exponent is e *)
HypotAt(x, y, e) ==
    RootOfSquares(BigAdd(BigSquare(BigShl(Mantissa(x), x[1] - e)),
                         BigSquare(BigShl(Mantissa(y), y[1] - e))), e)

(* math.hypot(x, y): the double nearest to sqrt(x^2 + y^2) *)
Hypot(x, y) ==
    IF IsZero(x) THEN y
    ELSE IF IsZero(y) THEN x
    ELSE HypotAt(x, y, IF x[1] < y[1] THEN x[1] ELSE y[1])

(* ---------------- float constants of the program ---------------- *)
(* the literal 1e-3 of "1e-3 < dist": 4611686018427388 * 2^-62, which is Mm(1) *)
MinDist == << -62, 68719476, 49392124 >>
(* the literal 1.6 of "dx * 1.6": 7205759403792794 * 2^-52 *)
MaxDistFactor == << -52, 107374182, 26843546 >>
(* the literal 0.1 of "err < 0.1": 7205759403792794 * 2^-56, which is  *)
(* Mm(100)                                                             *)
MirrorTol == << -56, 107374182, 26843546 >>

(* math.hypot(a, b) < bound, for a, b >= 0.  math.hypot(a, b) is not    *)
(* less than a or b and not greater than the float a + b (the rounding  *)
(* keeps the order), so the square root is taken only where these two   *)
(* do not decide                                                        *)
HypotLess(a, b, bound) ==
    /\ Less(a, bound)
    /\ Less(b, bound)
    /\ (Less(Add(a, b), bound) \/ Less(Hypot(a, b), bound))

(* ---------------- section properties ---------------- *)
(* area in mm^2, Ixx in mm^4 / 12 *)
calculate_i_section_properties(s) ==
    [ area |-> (2 * s.B * s.tf) + ((s.D - 2 * s.tf) * s.tw),
      Ixx  |-> (s.B * s.D * s.D * s.D)
               - ((s.B - s.tw) * (s.D - 2 * s.tf) * (s.D - 2 * s.tf) * (s.D - 2 * s.tf)) ]

(* ---------------- ground structure ---------------- *)
(* round(i * d, 3) for i in range(divs + 1), each kept as its number of mm *)
Axis(d, divs) == AsList([ i \in 1..(divs + 1) |-> Round3(MulInt(d, i - 1)) ])

(* the nodes (x, y) in the order of the double loop, x major, y minor *)
Grid(xs, ys) ==
    AsList([ k \in 1..(Len(xs) * Len(ys)) |->
               << xs[((k - 1) \div Len(ys)) + 1], ys[((k - 1) % Len(ys)) + 1] >> ])

(* step 2: dx = span / x_divs, dy = height / y_divs, a node at every     *)
(* (round(i * dx, 3), round(j * dy, 3))                                  *)
GridNodes(span, height) ==
    Grid(Axis(Div(Mm(span), x_divs), x_divs), Axis(Div(Mm(height), y_divs), y_divs))

(* the nodes as pairs of floats *)
Coordinates(nodes) ==
    AsList([ n \in 1..Len(nodes) |-> << Mm(nodes[n][1]), Mm(nodes[n][2]) >> ])

(* itertools.combinations(1..n, 2) in its lexicographic order *)
RECURSIVE Combinations2(_, _)
Combinations2(a, n) ==
    IF a >= n THEN << >>
    ELSE [ k \in 1..(n - a) |-> << a, a + k >> ] \o Combinations2(a + 1, n)

(* << |p2[0] - p1[0]|, |p2[1] - p1[1]| >> *)
Differences(p1, p2) == << AbsDiff(p2[1], p1[1]), AbsDiff(p2[2], p1[2]) >>

(* the pairs all of nodes, each with the differences of its coordinates *)
WithDifferences(at, all) ==
    AsList([ k \in 1..Len(all) |->
               [ p1 |-> all[k][1], p2 |-> all[k][2],
                 d |-> Differences(at[all[k][1]], at[all[k][2]]) ] ])

(* a pair that can pass "dist <= max_dist": neither coordinate differs  *)
(* by more than max_dist (math.hypot is not less than either            *)
(* difference)                                                          *)
Near(max_dist, d) == LessEq(d[1], max_dist) /\ LessEq(d[2], max_dist)

(* the pairs of itertools.combinations(nodes, 2) that are near, in order *)
NearPairs(at, max_dist) ==
    SelectSeq(WithDifferences(at, Combinations2(1, Len(at))),
              LAMBDA c : Near(max_dist, c.d))

(* the first pair of near with the differences of pair k *)
FirstSame(near, k) == SetMin({ j \in 1..k : near[j].d = near[k].d })

(* math.hypot(p2[0] - p1[0], p2[1] - p1[1]) for the pairs of near that   *)
(* are the first with their differences                                  *)
DistanceAtFirst(near) ==
    AsList([ k \in 1..Len(near) |->
               IF FirstSame(near, k) = k THEN Hypot(near[k].d[1], near[k].d[2]) ELSE Zero ])

(* dist for every pair of near: math.hypot is a function of the two      *)
(* differences, and is taken once for the pairs that have the same       *)
Spread(near, hypot) == AsList([ k \in 1..Len(near) |-> hypot[FirstSame(near, k)] ])

Distances(near) == Spread(near, DistanceAtFirst(near))

(* "if 1e-3 < dist <= max_dist" *)
Connects(max_dist, dist) == Less(MinDist, dist) /\ LessEq(dist, max_dist)

(* the pairs of near that get an element, in order *)
Connected(max_dist, dist) ==
    SelectSeq([ k \in 1..Len(dist) |-> k ], LAMBDA k : Connects(max_dist, dist[k]))

(* elements_metadata.append({...}) for the pair c at distance dist *)
Element(nodes, at, c, dist, id) ==
    [ id |-> id, p1 |-> nodes[c.p1], p2 |-> nodes[c.p2],
      mid_x |-> Half(Add(at[c.p1][1], at[c.p2][1])),
      mid_y |-> Half(Add(at[c.p1][2], at[c.p2][2])),
      length |-> dist,
      active |-> TRUE, strain_energy |-> Zero,
      force_val |-> 0, mirror_id |-> None ]

Elements(nodes, at, near, dist, pairs) ==
    AsList([ k \in 1..Len(pairs) |->
               Element(nodes, at, near[pairs[k]], dist[pairs[k]], k) ])

ConnectByDistance(nodes, at, near, dist, max_dist) ==
    Elements(nodes, at, near, dist, Connected(max_dist, dist))

ConnectNear(nodes, at, near, max_dist) ==
    ConnectByDistance(nodes, at, near, Distances(near), max_dist)

ConnectNodes(nodes, at, max_dist) == ConnectNear(nodes, at, NearPairs(at, max_dist), max_dist)

(* step 3: the element records, before the mirror pass; max_dist is      *)
(* dx * 1.6                                                              *)
ConnectGrid(nodes, max_dist) == ConnectNodes(nodes, Coordinates(nodes), max_dist)

GroundStructure(span, height) ==
    ConnectGrid(GridNodes(span, height), Mul(Div(Mm(span), x_divs), MaxDistFactor))

(* "if potential["mid_x"] > center_line" and "if err < 0.1" *)
IsTwin(potential, center_line, target_x, target_y) ==
    /\ Less(center_line, potential.mid_x)
    /\ HypotLess(AbsDiff(potential.mid_x, target_x),
                 AbsDiff(potential.mid_y, target_y), MirrorTol)

(* the inner loop of step 4 over meta[lo..hi]: the index of the first   *)
(* twin, None if there is none                                          *)
RECURSIVE FirstTwin(_, _, _, _, _, _)
FirstTwin(meta, center_line, target_x, target_y, lo, hi) ==
    IF lo > hi THEN None
    ELSE IF lo = hi
    THEN IF IsTwin(meta[lo], center_line, target_x, target_y) THEN lo ELSE None
    ELSE LET first == FirstTwin(meta, center_line, target_x, target_y, lo, (lo + hi) \div 2)
         IN  IF first # None THEN first
             ELSE FirstTwin(meta, center_line, target_x, target_y, ((lo + hi) \div 2) + 1, hi)

(* best_twin["id"], None without a twin *)
TwinId(meta, best_twin) == IF best_twin = None THEN None ELSE meta[best_twin].id

(* step 4 without "if el["mid_x"] < center_line": every element looks for  *)
(* a twin                                                                 *)
MirrorOf_NoSideTest(meta, span, el) ==
    TwinId(meta, FirstTwin(meta, Half(span), AbsDiff(span, el.mid_x), el.mid_y, 1, Len(meta)))

(* step 4: the first right-side element within tolerance of the reflected *)
(* midpoint, None if there is none or the element is not left of centre  *)
MirrorOf(meta, span, el) ==
    IF Less(el.mid_x, Half(span))
    THEN TwinId(meta, FirstTwin(meta, Half(span), AbsDiff(span, el.mid_x), el.mid_y,
                                1, Len(meta)))
    ELSE None

(* step 4 for every element; span is in mm *)
MapSymmetryOf(meta, span) ==
    AsList([ k \in 1..Len(meta) |-> [ meta[k] EXCEPT !.mirror_id = MirrorOf(meta, span, meta[k]) ] ])

MapSymmetry(meta, span) == MapSymmetryOf(meta, Mm(span))

(* ---------------- program state ---------------- *)
VARIABLES
    elements_metadata,  \* TopologyOptimizer.elements_metadata
    ss,                 \* TopologyOptimizer.ss: stiffness, supports, load
    is_running,         \* TopologyApp.is_running
    iteration,          \* TopologyApp.iteration
    lbl_status,         \* text shown by TopologyApp.lbl_status
    pending,            \* run_loop callbacks scheduled with root.after
    active_list,        \* run_iteration's sorted active_list (element ids)
    count_to_remove,    \* run_iteration's count_to_remove
    active_count        \* the count run_iteration returned to run_loop

vars == << elements_metadata, ss, is_running, iteration, lbl_status, pending,
           active_list, count_to_remove, active_count >>

(* ---------------- TopologyOptimizer.initialize_structure ---------------- *)
(* steps 2 to 4: the element records with their mirrors, which depend on *)
(* span and height only                                                  *)
Mesh(span, height) == MapSymmetry(GroundStructure(span, height), span)

(* steps 1, 5 and 6 around the mesh meta: the section properties, the     *)
(* solver's elements, the supports and the load; EA in kN, EI in          *)
(* mN m^2 / 12                                                            *)
SystemOf(meta, load_kn, support_type, E_GPa, section_params) ==
    LET props == calculate_i_section_properties(section_params)
        EA == [ m |-> E_GPa * props.area, e |-> 0 ]
        EI == [ m |-> E_GPa * props.Ixx, e |-> 0 ]
    IN  [ elements_metadata |-> meta,
          ss |-> [ EA |-> EA, EI |-> EI,
                   element_map |-> AsList([ k \in 1..Len(meta) |-> [ EA |-> EA, EI |-> EI ] ]),
                   support |-> support_type,
                   Fy |-> 0 - load_kn ] ]

initialize_structure(span, height, load_kn, support_type, E_GPa, section_params) ==
    SystemOf(Mesh(span, height), load_kn, support_type, E_GPa, section_params)

(* ---------------- the external solver ---------------- *)
(* anastruct is not part of the repository: what solve() and              *)
(* get_element_results() answer is an input of run_iteration.  The model  *)
(* takes it from a family of force fields, one per load case, that change *)
(* with the number of soft-killed elements, and that use the three shapes *)
(* of result the code distinguishes: a scalar N, a list N, and N = None   *)
(* with Nmin and Nmax.                                                    *)
solve(solver) ==
    [ Fy |-> solver.Fy,
      killed |-> Cardinality({ k \in 1..Len(solver.element_map) :
                                 solver.element_map[k].EA.e < 0 }) ]

get_element_results(solution, element_id) ==
    LET v == ((element_id * (2 * Abs(solution.Fy) + 1) + 5 * solution.killed) % 7) - 3
    IN  IF element_id % 3 = 0 THEN [ kind |-> "scalar", N |-> << v >>, Nmin |-> 0, Nmax |-> 0 ]
        ELSE IF element_id % 3 = 1 THEN [ kind |-> "list", N |-> << v, 1 - v >>, Nmin |-> 0, Nmax |-> 0 ]
        ELSE [ kind |-> "none", N |-> << >>, Nmin |-> v - 1, Nmax |-> v + 1 ]

RECURSIVE MaxAbs(_)
MaxAbs(s) == IF Len(s) = 0 THEN 0 ELSE Max2(Abs(Head(s)), MaxAbs(Tail(s)))

(* step B, "Get Force (Robust)" *)
ElementForce(res) ==
    IF res.kind = "none" THEN Max2(Abs(res.Nmin), Abs(res.Nmax))
    ELSE IF res.kind = "list" THEN MaxAbs(res.N)
    ELSE Abs(res.N[1])

(* ---------------- TopologyOptimizer.run_iteration ---------------- *)
(* next((x for x in elements_metadata if x["id"] == id), None), as an index *)
FindById(meta, id) ==
    LET hits == { k \in 1..Len(meta) : meta[k].id = id }
    IN  IF hits = {} THEN None ELSE SetMin(hits)

ActiveIndices(meta) == { k \in 1..Len(meta) : meta[k].active }

(* [el for el in elements_metadata if el["active"]], as indices *)
ActiveList(meta) ==
    SelectSeq([ k \in 1..Len(meta) |-> k ], LAMBDA k : meta[k].active)

(* the body of the loop of step B: force_val and strain_energy of one   *)
(* element, energy = (force ** 2) * el["length"]                       *)
ComputeEnergy(el, solution) ==
    LET force == ElementForce(get_element_results(solution, el.id))
    IN  [ el EXCEPT !.force_val = force,
                    !.strain_energy = MulInt(el.length, force * force) ]

(* step B left by an exception in its call-th get_element_results: the  *)
(* elements of active_list before that one have been rewritten          *)
ComputeEnergiesBefore(meta, solution, call) ==
    LET list == ActiveList(meta)
        done == { list[i] : i \in 1..(call - 1) }
    IN  AsList([ k \in 1..Len(meta) |->
            IF k \in done THEN ComputeEnergy(meta[k], solution) ELSE meta[k] ])

(* step B: force_val and strain_energy of every active element *)
ComputeEnergies(meta, solution) ==
    AsList([ k \in 1..Len(meta) |->
        IF meta[k].active THEN ComputeEnergy(meta[k], solution) ELSE meta[k] ])

(* step C for one element of active_list *)
SymmetrizeOne(meta, k) ==
    IF meta[k].mirror_id # None
    THEN LET t == FindById(meta, meta[k].mirror_id)
         IN  IF t # None /\ meta[t].active
             THEN LET avg_energy == Half(Add(meta[k].strain_energy, meta[t].strain_energy))
                  IN  [ meta EXCEPT ![k].strain_energy = avg_energy,
                                    ![t].strain_energy = avg_energy ]
             ELSE meta
    ELSE meta

(* step C: the loop over active_list[lo..hi], in order (the range is     *)
(* split in two halves, done one after the other; reading Len(meta)      *)
(* first makes the evaluation finish the first half before the second)   *)
RECURSIVE EnforceSymmetry(_, _, _, _)
EnforceSymmetry(meta, list, lo, hi) ==
    IF lo > hi \/ Len(meta) = 0 THEN meta
    ELSE IF lo = hi THEN SymmetrizeOne(meta, list[lo])
    ELSE LET mid == (lo + hi) \div 2
         IN  EnforceSymmetry(EnforceSymmetry(meta, list, lo, mid), list, mid + 1, hi)

(* k put into the sorted list after every element whose energy is not    *)
(* greater: what a stable ascending sort does with the next element      *)
InsertSorted(meta, sorted, k) ==
    LET p == Cardinality({ i \in 1..Len(sorted) :
                             LessEq(meta[sorted[i]].strain_energy, meta[k].strain_energy) })
    IN  SubSeq(sorted, 1, p) \o << k >> \o SubSeq(sorted, p + 1, Len(sorted))

RECURSIVE SortRange(_, _, _, _, _)
SortRange(meta, list, lo, hi, sorted) ==
    IF lo > hi \/ Len(sorted) < 0 THEN sorted
    ELSE IF lo = hi THEN InsertSorted(meta, sorted, list[lo])
    ELSE LET mid == (lo + hi) \div 2
         IN  SortRange(meta, list, mid + 1, hi, SortRange(meta, list, lo, mid, sorted))

(* step D without the sort: active_list stays in element order *)
SortByEnergy_Unsorted(meta, list) == list

(* list.sort(key = strain_energy): ascending and stable *)
SortByEnergy(meta, list) == SortRange(meta, list, 1, Len(list), << >>)

(* step D without "if count_to_remove < 1: count_to_remove = 1" *)
CountToRemove_NoMinimum(n) ==
    LET c0 == (n * RatioNum) \div RatioDen
    IN  IF n < SafetyFloor THEN 0 ELSE c0

(* step D without "if len(active_list) < 15: count_to_remove = 0" *)
CountToRemove_NoSafety(n) ==
    LET c0 == (n * RatioNum) \div RatioDen
    IN  IF c0 < 1 THEN 1 ELSE c0

(* step D: how many to remove *)
CountToRemove(n) ==
    LET c0 == (n * RatioNum) \div RatioDen
        c1 == IF c0 < 1 THEN 1 ELSE c0
    IN  IF n < SafetyFloor THEN 0 ELSE c1

(* x * 1e-6 *)
Reduce(x) == [ x EXCEPT !.e = x.e - 6 ]

SoftKill(el) == [ EA |-> Reduce(el.EA), EI |-> Reduce(el.EI) ]

(* step E with the twin's flag flipped instead of cleared *)
KillOne_FlipsTwin(st, k) ==
    LET meta1 == [ st.meta EXCEPT ![k].active = FALSE ]
        map1 == [ st.element_map EXCEPT ![meta1[k].id] = SoftKill(@) ]
        t == IF meta1[k].mirror_id # None THEN FindById(meta1, meta1[k].mirror_id) ELSE None
    IN  IF t # None
        THEN [ meta |-> [ meta1 EXCEPT ![t].active = ~@ ],
               element_map |-> [ map1 EXCEPT ![meta1[t].id] = SoftKill(@) ] ]
        ELSE [ meta |-> meta1, element_map |-> map1 ]

(* step E for one selected element: st = [meta, element_map] *)
KillOne(st, k) ==
    LET meta1 == [ st.meta EXCEPT ![k].active = FALSE ]
        map1 == [ st.element_map EXCEPT ![meta1[k].id] = SoftKill(@) ]
        t == IF meta1[k].mirror_id # None THEN FindById(meta1, meta1[k].mirror_id) ELSE None
    IN  IF t # None /\ meta1[t].active
        THEN [ meta |-> [ meta1 EXCEPT ![t].active = FALSE ],
               element_map |-> [ map1 EXCEPT ![meta1[t].id] = SoftKill(@) ] ]
        ELSE [ meta |-> meta1, element_map |-> map1 ]

(* step E: for i in range(count_to_remove) *)
RECURSIVE KillLoop(_, _, _, _)
KillLoop(st, sorted, i, count) ==
    IF i > count THEN st
    ELSE KillLoop(KillOne(st, sorted[i]), sorted, i + 1, count)

run_iteration(meta0, solver) ==
    LET list == ActiveList(meta0)
        meta1 == ComputeEnergies(meta0, solve(solver))
        meta2 == EnforceSymmetry(meta1, list, 1, Len(list))
        sorted == SortByEnergy(meta2, list)
        count == CountToRemove(Len(sorted))
        st == KillLoop([ meta |-> meta2, element_map |-> solver.element_map ],
                       sorted, 1, count)
    IN  [ elements_metadata |-> st.meta,
          ss |-> [ solver EXCEPT !.element_map = st.element_map ],
          active_list |-> AsList([ i \in 1..Len(sorted) |-> meta2[sorted[i]].id ]),
          count_to_remove |-> count,
          active_count |-> Len(sorted) - count ]

(* the mesh of every geometry of the form (computed once) *)
GeometryMesh ==
    AsList([ g \in 1..Len(Geometries) |-> Mesh(Geometries[g][1], Geometries[g][2]) ])

(* initialize_structure and the first run_iteration on its result, for  *)
(* every geometry, load case and section of the form (computed once)     *)
InitializedStructure ==
    AsList([ g \in 1..Len(Geometries) |->
        AsList([ load \in LoadCases |->
            AsList([ s \in 1..Len(Sections) |->
                SystemOf(GeometryMesh[g], load, SupportType, E_GPa_Input,
                         Sections[s]) ]) ]) ])

FirstIteration ==
    AsList([ g \in 1..Len(Geometries) |->
        AsList([ load \in LoadCases |->
            AsList([ s \in 1..Len(Sections) |->
                run_iteration(InitializedStructure[g][load][s].elements_metadata,
                              InitializedStructure[g][load][s].ss) ]) ]) ])

(* the optimizer states [elements_metadata, ss] that follow one another   *)
(* from r under run_iteration, each with the result of run_iteration on   *)
(* it, up to the first state that run_iteration leaves as it is           *)
RECURSIVE Iterations(_, _, _)
Iterations(r, n, acc) ==
    IF n = 0 \/ Len(acc) < 0 THEN acc
    ELSE CHOOSE out \in
           { IF result.elements_metadata = r.elements_metadata /\ result.ss = r.ss
             THEN Append(acc, [ elements_metadata |-> r.elements_metadata, ss |-> r.ss,
                                result |-> result ])
             ELSE Iterations(result, n - 1,
                             Append(acc, [ elements_metadata |-> r.elements_metadata,
                                           ss |-> r.ss, result |-> result ]))
             : result \in { run_iteration(r.elements_metadata, r.ss) } } : TRUE

RECURSIVE ConcatAll(_, _)
ConcatAll(ss_, k) == IF k = 0 THEN << >> ELSE ConcatAll(ss_, k - 1) \o ss_[k]

(* the run from every geometry, load case and section of the form         *)
(* (computed once)                                                        *)
IterationRuns ==
    AsList([ n \in 1..(Len(Geometries) * NumLoadCases * Len(Sections)) |->
        Iterations(InitializedStructure[((n - 1) \div (NumLoadCases * Len(Sections))) + 1]
                                       [(((n - 1) \div Len(Sections)) % NumLoadCases) + 1]
                                       [((n - 1) % Len(Sections)) + 1],
                   MaxIterations, << >>) ])

(* run_iteration on every optimizer state a run goes through *)
IterationTable == ConcatAll(IterationRuns, Len(IterationRuns))

(* run_iteration(meta, solver), taken from the table where it is there *)
Lookup(table, meta, solver) ==
    LET hits == { k \in 1..Len(table) :
                    /\ table[k].elements_metadata = meta
                    /\ table[k].ss = solver }
    IN  IF hits = {} THEN run_iteration(meta, solver)
        ELSE table[SetMin(hits)].result

Iterate(meta, solver) == Lookup(IterationTable, meta, solver)

(* ---------------- TopologyApp ---------------- *)
NumActive(meta) == Cardinality(ActiveIndices(meta))

Init ==
    /\ elements_metadata = << >>
    /\ ss = [ EA |-> [ m |-> 0, e |-> 0 ], EI |-> [ m |-> 0, e |-> 0 ],
              element_map |-> << >>, support |-> "", Fy |-> 0 ]
    /\ is_running = FALSE
    /\ iteration = 0
    /\ lbl_status = "Ready"
    /\ pending = 0
    /\ active_list = << >>
    /\ count_to_remove = 0
    /\ active_count = 0

(* ---- TopologyApp.run_loop ----                                         *)
(* run_loop is called on the optimizer state (meta0, solver0) with        *)
(* is_running = running0, iteration = iter0, status0 shown and pend0      *)
(* other callbacks scheduled.  r is what run_iteration gives on (meta0,   *)
(* solver0); locals0 holds the values of the last run_iteration that      *)
(* returned, kept when this one does not return.                          *)
(*                                                                        *)
(* "except Exception" covers the whole try block, so an exception ends    *)
(* the loop wherever it is raised.  raises says where:                    *)
(*   "solve"    in ss.solve(), the first statement of run_iteration:      *)
(*              nothing has been changed;                                 *)
(*   "results"  in the call-th get_element_results of step B: the         *)
(*              elements before it have their force_val and               *)
(*              strain_energy rewritten (with no call-th call, there is   *)
(*              no exception);                                            *)
(*   "plot"     after run_iteration returned (the entry fields read       *)
(*              again, the drawing calls): the iteration is complete;     *)
(*   "none"     nowhere.                                                  *)
RaisePoints == { "none", "solve", "results", "plot" }

(* the get_element_results calls that raise, counted within one step B *)
RaiseCalls == { 2, 40 }

(* where a run_loop raises: a point, and for "results" the call *)
Raises == ((RaisePoints \ { "results" }) \X { 0 }) \cup ({ "results" } \X RaiseCalls)

(* an exception is raised in run_loop on meta0 *)
Raised(meta0, raises, call) ==
    \/ raises \in { "solve", "plot" }
    \/ raises = "results" /\ call >= 1 /\ call <= Len(ActiveList(meta0))

(* "if not self.is_running: return" *)
ReturnEarly(meta0, solver0, locals0, running0, iter0, status0, pend0) ==
    /\ is_running' = running0
    /\ iteration' = iter0
    /\ lbl_status' = status0
    /\ pending' = pend0
    /\ active_count' = locals0.active_count
    /\ count_to_remove' = locals0.count_to_remove
    /\ active_list' = locals0.active_list
    /\ ss' = solver0
    /\ elements_metadata' = meta0

(* the except branch without "self.is_running = False" *)
OnException_KeepsRunning(meta1, solver1, locals1, running0, pend0) ==
    /\ is_running' = running0
    /\ lbl_status' = "Solver Error"
    /\ pending' = pend0
    /\ active_count' = locals1.active_count
    /\ count_to_remove' = locals1.count_to_remove
    /\ active_list' = locals1.active_list
    /\ ss' = solver1
    /\ elements_metadata' = meta1

(* "except Exception as e", reached with the optimizer in (meta1,         *)
(* solver1) and locals1 the last values run_iteration returned            *)
OnException(meta1, solver1, locals1, running0, pend0) ==
    /\ is_running' = FALSE
    /\ lbl_status' = "Solver Error"
    /\ pending' = pend0
    /\ active_count' = locals1.active_count
    /\ count_to_remove' = locals1.count_to_remove
    /\ active_list' = locals1.active_list
    /\ ss' = solver1
    /\ elements_metadata' = meta1

(* the termination check without "self.root.after(200, self.run_loop)" *)
OnIteration_NoReschedule(r, running0, pend0) ==
    /\ IF r.active_count < ConvergenceFloor
       THEN /\ is_running' = FALSE
            /\ lbl_status' = "Optimization Converged."
            /\ pending' = pend0
       ELSE /\ is_running' = running0
            /\ lbl_status' = "Iteration"
            /\ pending' = pend0
    /\ active_count' = r.active_count
    /\ count_to_remove' = r.count_to_remove
    /\ active_list' = r.active_list
    /\ ss' = r.ss
    /\ elements_metadata' = r.elements_metadata

(* the try block after run_iteration returned r and the plot was drawn:   *)
(* status, then the "Termination Check"                                   *)
OnIteration(r, running0, pend0) ==
    /\ IF r.active_count < ConvergenceFloor
       THEN /\ is_running' = FALSE
            /\ lbl_status' = "Optimization Converged."
            /\ pending' = pend0
       ELSE /\ is_running' = running0
            /\ lbl_status' = "Iteration"
            /\ pending' = pend0 + 1
    /\ active_count' = r.active_count
    /\ count_to_remove' = r.count_to_remove
    /\ active_list' = r.active_list
    /\ ss' = r.ss
    /\ elements_metadata' = r.elements_metadata

(* the values run_iteration returned *)
Returned(r) == [ active_list |-> r.active_list, count_to_remove |-> r.count_to_remove,
                 active_count |-> r.active_count ]

(* the try block of run_loop *)
TryIteration(meta0, solver0, r, locals0, running0, pend0, raises, call) ==
    IF raises = "solve"
    THEN OnException(meta0, solver0, locals0, running0, pend0)
    ELSE IF raises = "results" /\ Raised(meta0, raises, call)
    THEN OnException(ComputeEnergiesBefore(meta0, solve(solver0), call), solver0, locals0,
                     running0, pend0)
    ELSE IF raises = "plot"
    THEN OnException(r.elements_metadata, r.ss, Returned(r), running0, pend0)
    ELSE OnIteration(r, running0, pend0)

(* run_loop without "if not self.is_running: return" *)
run_loop_NoGuard(meta0, solver0, r, locals0, running0, iter0, status0, pend0, raises, call) ==
    /\ iteration' = iter0 + 1
    /\ TryIteration(meta0, solver0, r, locals0, running0, pend0, raises, call)

run_loop(meta0, solver0, r, locals0, running0, iter0, status0, pend0, raises, call) ==
    IF ~running0
    THEN ReturnEarly(meta0, solver0, locals0, running0, iter0, status0, pend0)
    ELSE /\ iteration' = iter0 + 1
         /\ TryIteration(meta0, solver0, r, locals0, running0, pend0, raises, call)

NoLocals == [ active_list |-> << >>, count_to_remove |-> 0, active_count |-> 0 ]

Locals == [ active_list |-> active_list, count_to_remove |-> count_to_remove,
            active_count |-> active_count ]

(* start_optimization without "self.iteration = 0" *)
start_optimization_NoReset(g, load, s, raises, call) ==
    run_loop(InitializedStructure[g][load][s].elements_metadata,
             InitializedStructure[g][load][s].ss,
             FirstIteration[g][load][s], NoLocals,
             TRUE, iteration, "Initializing Mesh...", pending, raises, call)

(* RUN OPTIMIZATION with numeric fields: initialize, then the first       *)
(* run_loop call.  Non-numeric fields raise ValueError before anything is *)
(* changed, so that case is no step of the model.  Nothing is tested and *)
(* no scheduled callback is cancelled.                                    *)
start_optimization(g, load, s, raises, call) ==
    run_loop(InitializedStructure[g][load][s].elements_metadata,
             InitializedStructure[g][load][s].ss,
             FirstIteration[g][load][s], NoLocals,
             TRUE, 0, "Initializing Mesh...", pending, raises, call)

stop_optimization ==
    /\ is_running' = FALSE
    /\ lbl_status' = "Stopped by User."
    /\ UNCHANGED << elements_metadata, ss, iteration, pending,
                    active_list, count_to_remove, active_count >>

(* a callback scheduled by root.after(200, self.run_loop) fires *)
TimerFires(raises, call) ==
    /\ pending > 0
    /\ run_loop(elements_metadata, ss, Iterate(elements_metadata, ss), Locals,
                is_running, iteration, lbl_status, pending - 1, raises, call)

(* the user presses RUN OPTIMIZATION.  The program accepts it at any     *)
(* time; the user of the model presses it only while fewer than          *)
(* MaxPending callbacks are scheduled, which keeps pending finite, and    *)
(* leaves the section fields at SectionInput (Sections[1])               *)
Start ==
    /\ pending < MaxPending
    /\ \E g \in 1..Len(Geometries), load \in LoadCases, r \in Raises :
           start_optimization(g, load, 1, r[1], r[2])

Stop == stop_optimization

Timer == \E r \in Raises : TimerFires(r[1], r[2])

Next == Start \/ Stop \/ Timer

Spec == Init /\ [][Next]_vars

(* ---------------- runs left to themselves ---------------- *)
(* no STOP is pressed, nothing raises and RUN is pressed only when no     *)
(* loop is running; Tk fires a scheduled callback after its 200 ms, so a  *)
(* callback that stays scheduled is eventually run                        *)
LiveStart ==
    /\ ~is_running
    /\ \E g \in 1..Len(Geometries), load \in LoadCases, s \in 1..Len(Sections) :
           start_optimization(g, load, s, "none", 1)

LiveTimer ==
    /\ pending > 0
    /\ run_loop(elements_metadata, ss, Iterate(elements_metadata, ss), Locals,
                is_running, iteration, lbl_status, pending - 1, "none", 1)

LiveNext == LiveStart \/ LiveTimer

LiveSpec == Init /\ [][LiveNext]_vars /\ WF_vars(LiveTimer)

(* ---------------- TopologyOptimizer driven directly ---------------- *)
(* a client of the class calls initialize_structure and run_iteration     *)
(* itself, with no convergence check in between                           *)
InitializeStructure(g, load, s) ==
    /\ elements_metadata' = InitializedStructure[g][load][s].elements_metadata
    /\ ss' = InitializedStructure[g][load][s].ss
    /\ active_list' = << >>
    /\ count_to_remove' = 0
    /\ active_count' = 0
    /\ UNCHANGED << is_running, iteration, lbl_status, pending >>

RunIteration ==
    /\ Len(elements_metadata) > 0
    /\ LET r == run_iteration(elements_metadata, ss)
       IN  /\ elements_metadata' = r.elements_metadata
           /\ ss' = r.ss
           /\ active_list' = r.active_list
           /\ count_to_remove' = r.count_to_remove
           /\ active_count' = r.active_count
    /\ UNCHANGED << is_running, iteration, lbl_status, pending >>

BackendInitialize ==
    \E g \in 1..Len(Geometries), load \in LoadCases, s \in 1..Len(Sections) :
        InitializeStructure(g, load, s)

BackendNext == BackendInitialize \/ RunIteration

BackendSpec == Init /\ [][BackendNext]_vars

(* ---------------- initialize_structure on its own ---------------- *)
(* the mesh of every span and height of MeshSpans and MeshHeights        *)
(* (computed once)                                                        *)
MeshTable ==
    AsList([ i \in 1..Len(MeshSpans) |->
        AsList([ j \in 1..Len(MeshHeights) |-> Mesh(MeshSpans[i], MeshHeights[j]) ]) ])

BuildMesh(i, j, load, s) ==
    LET r == SystemOf(MeshTable[i][j], load, SupportType, E_GPa_Input, Sections[s])
    IN  /\ elements_metadata' = r.elements_metadata
        /\ ss' = r.ss
        /\ active_list' = << >>
        /\ count_to_remove' = 0
        /\ active_count' = 0
        /\ UNCHANGED << is_running, iteration, lbl_status, pending >>

MeshNext ==
    \E i \in 1..Len(MeshSpans), j \in 1..Len(MeshHeights),
       load \in LoadCases, s \in 1..Len(Sections) : BuildMesh(i, j, load, s)

MeshSpec == Init /\ [][MeshNext]_vars

(* ---------------- properties ---------------- *)
Converged == "Optimization Converged."
Stopped == "Stopped by User."
Failed == "Solver Error"

(* the element record with this id *)
ById(id) == elements_metadata[FindById(elements_metadata, id)]

(* the ids of the elements that were active when the last completed       *)
(* run_iteration started                                                  *)
ActiveAtStart == { active_list[i] : i \in 1..Len(active_list) }

(* the ids of the elements soft-killed in the solver *)
SoftKilled == { k \in 1..Len(ss.element_map) : ss.element_map[k].EA.e < 0 }

(* C1: after every completed run_iteration, every active member that has  *)
(* a mirror_id has an active mirror.                                      *)
C1_ActiveMirrorOfActive ==
    \A k \in ActiveIndices(elements_metadata) :
        elements_metadata[k].mirror_id # None
            => ById(elements_metadata[k].mirror_id).active

(* C2: after the symmetrization step of a run_iteration, every member     *)
(* that was active in it and whose mirror was active in it has exactly    *)
(* the strain_energy of its mirror.                                       *)
C2_MirrorEnergyEqual ==
    \A id \in ActiveAtStart :
        (ById(id).mirror_id # None /\ ById(id).mirror_id \in ActiveAtStart)
            => ById(id).strain_energy = ById(ById(id).mirror_id).strain_energy

(* C3: a member and its mirror that were both active when a run_iteration *)
(* started are, when it ends, both still active or both inactive and both *)
(* soft-killed.                                                           *)
C3_RemovedTogether ==
    \A id \in ActiveAtStart :
        (ById(id).mirror_id # None /\ ById(id).mirror_id \in ActiveAtStart)
            => \/ ById(id).active /\ ById(ById(id).mirror_id).active
               \/ /\ ~ById(id).active
                  /\ ~ById(ById(id).mirror_id).active
                  /\ id \in SoftKilled
                  /\ ById(id).mirror_id \in SoftKilled

(* C4: the loop is Converged after exactly the first iteration that       *)
(* leaves fewer than 25 members active: an iteration that leaves fewer    *)
(* than 25 is not reported as a running one, and Converged is never shown *)
(* while 25 or more are active.                                           *)
C4_ConvergedExactlyBelowFloor ==
    /\ lbl_status = "Iteration" => NumActive(elements_metadata) >= ConvergenceFloor
    /\ lbl_status = Converged => NumActive(elements_metadata) < ConvergenceFloor

(* C5: the active count returned by run_iteration is the number of        *)
(* members whose active flag is true when the iteration ends.             *)
C5_ReportedCountIsActive ==
    lbl_status \in { "Iteration", Converged }
        => active_count = NumActive(elements_metadata)

(* C6: count_to_remove is 0 when fewer than 15 members were active at the *)
(* start of the iteration, and max(1, floor(active * removal_ratio))      *)
(* otherwise; the members selected by rank are the first count_to_remove  *)
(* of the sorted list, and all of them are inactive afterwards.           *)
C6_CountToRemove ==
    Len(active_list) > 0 =>
        /\ count_to_remove =
              IF Len(active_list) < SafetyFloor THEN 0
              ELSE Max2(1, (Len(active_list) * RatioNum) \div RatioDen)
        /\ count_to_remove <= Len(active_list)
        /\ \A i \in 1..count_to_remove : ~ById(active_list[i]).active
        /\ NumActive(elements_metadata) <= Len(active_list) - count_to_remove

(* an iteration that started with fewer than 15 active members and        *)
(* removed nothing                                                        *)
C6_Witness ==
    /\ Len(active_list) > 0
    /\ Len(active_list) < SafetyFloor
    /\ count_to_remove = 0
    /\ NumActive(elements_metadata) = Len(active_list)

(* C7: at most one run_loop callback is scheduled at any time, so no two  *)
(* runs proceed side by side.                                             *)
C7_AtMostOneCallback == pending <= 1

(* C8: stop_optimization changes no member and no stiffness, and once the *)
(* status is Stopped no step other than start_optimization runs an        *)
(* iteration: members, stiffness and the iteration counter stay as they   *)
(* are and is_running stays false.                                        *)
C8_StopFreezes ==
    [][ /\ stop_optimization
            => (~is_running' /\ UNCHANGED << elements_metadata, ss, iteration >>)
        /\ (lbl_status = Stopped /\ ~Start)
            => /\ UNCHANGED << elements_metadata, ss, iteration >>
               /\ ~is_running' ]_vars

(* stopped in the middle of a run (25 or more members still active, some  *)
(* already removed), and the callback that was scheduled has fired        *)
C8_Witness ==
    /\ lbl_status = Stopped
    /\ ~is_running
    /\ pending = 0
    /\ iteration >= 2
    /\ active_count >= ConvergenceFloor
    /\ NumActive(elements_metadata) < Len(elements_metadata)

(* C9: a terminal status (Converged, Stopped, Failed) and is_running are  *)
(* changed by no step other than start_optimization.                      *)
C9_TerminalSticky ==
    [][ (lbl_status \in { Converged, Stopped, Failed } /\ ~Start)
            => (lbl_status' = lbl_status /\ is_running' = is_running) ]_vars

(* a step in which run_loop raises: the first run_loop of a              *)
(* start_optimization, or a callback of a running loop                    *)
StartRaises ==
    \E g \in 1..Len(Geometries), load \in LoadCases, r \in Raises :
        /\ Raised(InitializedStructure[g][load][1].elements_metadata, r[1], r[2])
        /\ start_optimization(g, load, 1, r[1], r[2])

TimerRaises ==
    /\ is_running
    /\ \E r \in Raises :
          /\ Raised(elements_metadata, r[1], r[2])
          /\ TimerFires(r[1], r[2])

(* C10: a run_loop whose iteration raises (in the solver, in the middle   *)
(* of run_iteration or after it) ends Failed: is_running false, the error *)
(* in the status, no new callback scheduled; while the status is Failed,  *)
(* no step other than start_optimization runs an iteration: members,      *)
(* stiffness and the iteration counter stay as they are.                  *)
C10_FailedNoRetry ==
    [][ /\ StartRaises => (lbl_status' = Failed /\ ~is_running' /\ pending' = pending)
        /\ TimerRaises
            => /\ lbl_status' = Failed
               /\ ~is_running'
               /\ pending' = pending - 1
        /\ (lbl_status = Failed /\ ~Start)
            => /\ UNCHANGED << elements_metadata, ss, iteration >>
               /\ ~is_running'
               /\ pending' <= pending ]_vars

(* an iteration run from the timer has raised in the middle of step B,    *)
(* after earlier iterations had removed members, and nothing is scheduled *)
(* any more: some active members have the force of this iteration, the    *)
(* others that of the one before                                          *)
C10_Witness ==
    /\ lbl_status = Failed
    /\ ~is_running
    /\ pending = 0
    /\ iteration >= 2
    /\ NumActive(elements_metadata) < Len(elements_metadata)
    /\ \E k \in ActiveIndices(elements_metadata) :
          elements_metadata[k].force_val
            # ElementForce(get_element_results(solve(ss), elements_metadata[k].id))
    /\ \E k \in ActiveIndices(elements_metadata) :
          /\ elements_metadata[k].force_val > 0
          /\ elements_metadata[k].strain_energy
               = MulInt(elements_metadata[k].length,
                        elements_metadata[k].force_val * elements_metadata[k].force_val)

(* a section with a non-positive resulting dimension: the web height      *)
(* D - 2 tf (flange thickness at least half the depth), or an input       *)
Degenerate(s) ==
    s.B <= 0 \/ s.D <= 0 \/ s.tw <= 0 \/ s.tf <= 0 \/ 2 * s.tf >= s.D \/ s.tw > s.B

(* C11: initialize_structure called with a degenerate I-section fails in  *)
(* calculate_i_section_properties and creates nothing: the members and    *)
(* the solver system stay as they were.                                   *)
C11_DegenerateSectionFails ==
    [][ \A g \in 1..Len(Geometries), load \in LoadCases, s \in 1..Len(Sections) :
            (Degenerate(Sections[s]) /\ InitializeStructure(g, load, s))
                => UNCHANGED << elements_metadata, ss >> ]_vars

(* the squared distance of two nodes, mm^2 *)
Dist2(p1, p2) == (p2[1] - p1[1]) * (p2[1] - p1[1]) + (p2[2] - p1[2]) * (p2[2] - p1[2])

(* the unordered endpoint pair of a member *)
Endpoints(el) == { el.p1, el.p2 }

(* dist in (1e-3, 1.6 * dx], in mm: 1.6 * dx = 1.6 * span / 8 = span / 5 *)
InLengthBounds(span, d2) == d2 > 1 /\ 25 * d2 <= span * span

(* C12 for the members meta built for this span and height *)
C12_Holds(span, height, meta) ==
    LET nodes == GridNodes(span, height)
        points == { nodes[n] : n \in 1..Len(nodes) }
    IN  /\ \A a, b \in 1..Len(meta) : a # b => Endpoints(meta[a]) # Endpoints(meta[b])
        /\ \A a \in 1..Len(meta) :
              /\ meta[a].p1 \in points /\ meta[a].p2 \in points
              /\ InLengthBounds(span, Dist2(meta[a].p1, meta[a].p2))
        /\ \A P, Q \in points :
              (5 * Abs(Q[1] - P[1]) <= span /\ 5 * Abs(Q[2] - P[2]) <= span
                 /\ InLengthBounds(span, Dist2(P, Q)))
                  => \E a \in 1..Len(meta) : Endpoints(meta[a]) = { P, Q }

(* C12: the members built by initialize_structure are exactly one per     *)
(* unordered pair of grid nodes whose distance is in (1e-3, 1.6 dx]: no   *)
(* two members have the same unordered endpoint pair, every member's      *)
(* length is in the bounds and every qualifying pair has its member.      *)
C12_OneMemberPerPair ==
    [][ \A i \in 1..Len(MeshSpans), j \in 1..Len(MeshHeights),
           load \in LoadCases, s \in 1..Len(Sections) :
            BuildMesh(i, j, load, s)
                => C12_Holds(MeshSpans[i], MeshHeights[j], elements_metadata') ]_vars

(* twice the midpoint of a member, in mm, from its end nodes *)
Mid2(el) == << el.p1[1] + el.p2[1], el.p1[2] + el.p2[2] >>

(* 0.1 in half mm *)
Tolerance2 == 200

(* the midpoint of member b minus the reflection about span / 2 of the    *)
(* midpoint of member a, in half mm, from the end nodes                   *)
Offset2(span, a, b) ==
    << Mid2(b)[1] - (2 * span - Mid2(a)[1]), Mid2(b)[2] - Mid2(a)[2] >>

(* the same distance as the program computes it from the stored          *)
(* midpoints: hypot(b.mid_x - (span - a.mid_x), b.mid_y - a.mid_y)        *)
MirrorError(span, a, b) ==
    Hypot(AbsDiff(b.mid_x, AbsDiff(Mm(span), a.mid_x)), AbsDiff(b.mid_y, a.mid_y))

(* C13 for the members meta built for this span (in mm): the Euclidean    *)
(* distance of the mirror's midpoint from the reflected midpoint is at    *)
(* most 0.1, in exact decimals (squared, in half mm) and in the floats    *)
(* stored in the members                                                  *)
C13_Holds(span, meta) ==
    \A a \in 1..Len(meta) :
        meta[a].mirror_id # None =>
            /\ Mid2(meta[a])[1] < span
            /\ Less(meta[a].mid_x, Half(Mm(span)))
            /\ meta[a].mirror_id # meta[a].id
            /\ \E b \in 1..Len(meta) :
                  /\ meta[b].id = meta[a].mirror_id
                  /\ b # a
                  /\ Offset2(span, meta[a], meta[b])[1] * Offset2(span, meta[a], meta[b])[1]
                     + Offset2(span, meta[a], meta[b])[2] * Offset2(span, meta[a], meta[b])[2]
                     <= Tolerance2 * Tolerance2
                  /\ LessEq(MirrorError(span, meta[a], meta[b]), MirrorTol)

(* C13: after initialize_structure, every member with a mirror_id has its *)
(* midpoint strictly left of span / 2, is not its own mirror, and the     *)
(* mirror's midpoint is within 0.1 of (span - mid_x, mid_y): whenever the *)
(* members are those initialize_structure builds for a span and a height, *)
(* they satisfy this for that span.                                       *)
C13_MirrorWithinTolerance ==
    \A i \in 1..Len(MeshSpans), j \in 1..Len(MeshHeights) :
        elements_metadata = MeshTable[i][j] => C13_Holds(MeshSpans[i], elements_metadata)

(* a mesh in which a member has a mirror whose midpoint is at 0.1 from   *)
(* the reflected one, and a member on the centre line, at the same       *)
(* height, has none                                                      *)
C13_Witness ==
    \E a, b \in 1..Len(elements_metadata) :
        /\ elements_metadata[a].mirror_id # None
        /\ Mid2(ById(elements_metadata[a].mirror_id))[2] = Mid2(elements_metadata[a])[2]
        /\ Abs(Mid2(ById(elements_metadata[a].mirror_id))[1] + Mid2(elements_metadata[a])[1]
                 - 4 * elements_metadata[b].p1[1]) = Tolerance2
        /\ elements_metadata[b].p1[1] = elements_metadata[b].p2[1]
        /\ elements_metadata[b].mirror_id = None
        /\ Mid2(elements_metadata[b])[2] = Mid2(elements_metadata[a])[2]

(* the fields of a member that are set when the mesh is built *)
Geometry(el) == << el.id, el.p1, el.p2, el.mid_x, el.mid_y, el.length, el.mirror_id >>

(* C14: run_iteration adds and deletes no member, changes no member's     *)
(* geometry and turns no inactive member active again, so the number of   *)
(* active members after it is at most the number before it.               *)
C14_NeverReactivated ==
    [][ RunIteration =>
          /\ Len(elements_metadata') = Len(elements_metadata)
          /\ Len(ss'.element_map) = Len(ss.element_map)
          /\ \A k \in 1..Len(elements_metadata) :
                /\ Geometry(elements_metadata'[k]) = Geometry(elements_metadata[k])
                /\ elements_metadata'[k].active => elements_metadata[k].active
          /\ NumActive(elements_metadata') <= NumActive(elements_metadata) ]_vars

(* an iteration that started with members already inactive and removed    *)
(* more, among them one whose mirror was inactive before                  *)
C14_Witness ==
    /\ Len(active_list) > 0
    /\ Len(active_list) < Len(elements_metadata)
    /\ NumActive(elements_metadata) < Len(active_list)
    /\ \E i \in 1..count_to_remove :
          /\ ById(active_list[i]).mirror_id # None
          /\ ById(active_list[i]).mirror_id \notin ActiveAtStart

(* C15: start_optimization sets the iteration counter to 0 and its first  *)
(* run_loop makes it 1; every later run_loop that executes an iteration   *)
(* adds exactly 1, and a run_loop that returns at its guard and           *)
(* stop_optimization leave it alone: the k-th iteration of a run is       *)
(* reported with index k.                                                 *)
C15_IterationCounter ==
    [][ /\ Start => iteration' = 1
        /\ (Timer /\ is_running) => iteration' = iteration + 1
        /\ ((Timer /\ ~is_running) \/ Stop) => iteration' = iteration ]_vars

(* a run restarted while a callback of the earlier run was scheduled has  *)
(* counted on to its third iteration or further                          *)
C15_Witness ==
    /\ lbl_status = "Iteration"
    /\ iteration >= 3
    /\ pending = 2
    /\ Len(elements_metadata) - NumActive(elements_metadata) >= iteration

(* C16 as claimed: a run_iteration that started with at least 15 active   *)
(* members ends with at least 15 active members.                          *)
C16_FloorNeverUndercut ==
    Len(active_list) >= SafetyFloor => NumActive(elements_metadata) >= SafetyFloor

(* C16 as amended: the hold is decided by the count at the start of the   *)
(* iteration.  A run_iteration that started with fewer than 15 active     *)
(* members removed nothing; one that started with at least 15 ends with   *)
(* at least 13.                                                           *)
C16_HoldBelowFloor ==
    Len(active_list) > 0 =>
        /\ Len(active_list) < SafetyFloor
              => NumActive(elements_metadata) = Len(active_list)
        /\ Len(active_list) >= SafetyFloor
              => NumActive(elements_metadata) >= SafetyFloor - 2

(* an iteration that started with exactly 15 active members and removed   *)
(* one of them with its mirror                                            *)
C16_Witness ==
    /\ Len(active_list) = SafetyFloor
    /\ NumActive(elements_metadata) = SafetyFloor - 2

(* C17: the solver's element map has one entry per member; an active      *)
(* member has the initial EA and EI, an inactive member has the initial   *)
(* EA and EI scaled by 1e-6 exactly once.                                 *)
C17_StiffnessMatchesFlags ==
    /\ Len(ss.element_map) = Len(elements_metadata)
    /\ \A k \in 1..Len(elements_metadata) :
          ss.element_map[elements_metadata[k].id] =
              IF elements_metadata[k].active
              THEN [ EA |-> ss.EA, EI |-> ss.EI ]
              ELSE [ EA |-> Reduce(ss.EA), EI |-> Reduce(ss.EI) ]

(* the members selected by rank in the last completed run_iteration *)
SelectedByRank == { active_list[i] : i \in 1..count_to_remove }

(* C18: in every run_iteration, each member selected by rank has a        *)
(* symmetrized strain_energy less than or equal to that of every member   *)
(* still active when the iteration ends.                                  *)
C18_WeakestFirst ==
    \A id \in SelectedByRank :
        \A k \in ActiveIndices(elements_metadata) :
            LessEq(ById(id).strain_energy, elements_metadata[k].strain_energy)

(* an iteration removed a member with non-zero energy that is not first   *)
(* in element order, while members with the same and with a greater       *)
(* energy stay active                                                     *)
C18_Witness ==
    \E id \in SelectedByRank :
        /\ Less(Zero, ById(id).strain_energy)
        /\ \E j \in ActiveAtStart : j < id /\ ById(j).active
        /\ \E k \in ActiveIndices(elements_metadata) :
              Less(ById(id).strain_energy, elements_metadata[k].strain_energy)
        /\ \E k \in ActiveIndices(elements_metadata) :
              elements_metadata[k].strain_energy = ById(id).strain_energy

(* C19: the mirror pairing is one-to-one: no two distinct members have    *)
(* the same mirror_id.                                                    *)
C19_MirrorOneToOne ==
    \A a, b \in 1..Len(elements_metadata) :
        (a # b /\ elements_metadata[a].mirror_id # None)
            => elements_metadata[a].mirror_id # elements_metadata[b].mirror_id

====
